---- MODULE Spec2Model ----
(***************************************************************************)
(* Model of the polygon-edge legacy ("Frontier") transaction signer        *)
(* (crypto/txsigner_frontier.go) and of the polybft manifest command's     *)
(* flag validation (command/polybftmanifest/manifest_init.go).             *)
(*                                                                         *)
(* Go pointers are modelled as either Nil or a value.  A *big.Int is a     *)
(* record [neg, abs]: a sign and a big-endian magnitude without leading    *)
(* zero bytes, which is how math/big stores it; Bytes and SetBytes are the *)
(* conversions between that record and a byte slice.                       *)
(***************************************************************************)
EXTENDS Integers, Sequences, FiniteSets, TLC

VARIABLES txs, signedBy, res, mpc, params, mres

vars == <<txs, signedBy, res, mpc, params, mres>>
signerVars == <<txs, signedBy, res>>
manifestVars == <<mpc, params, mres>>

Nil == [nil |-> TRUE]
NoErr == "ok"
InvalidSignature == "InvalidSignature"
SigningFailure == "SigningFailure"
RecoveryFailure == "RecoveryFailure"

(***************************************************************************)
(* Bounds of the model.                                                    *)
(***************************************************************************)
MaxTx == 2

(***************************************************************************)
(* Bytes and math/big.                                                     *)
(***************************************************************************)
ByteBase == 256
SigPartLen == 32

TrimLeft(b) ==
    IF \A i \in 1 .. Len(b) : b[i] = 0 THEN <<>>
    ELSE SubSeq(b, CHOOSE i \in 1 .. Len(b) :
                       b[i] # 0 /\ \A j \in 1 .. i - 1 : b[j] = 0, Len(b))

RECURSIVE NatOf(_)
NatOf(b) ==
    IF b = <<>> THEN 0
    ELSE NatOf(SubSeq(b, 1, Len(b) - 1)) * ByteBase + b[Len(b)]

RECURSIVE BytesOfNat(_)
BytesOfNat(n) ==
    IF n = 0 THEN <<>>
    ELSE Append(BytesOfNat(n \div ByteBase), n % ByteBase)

Zeros(n) == [i \in 1 .. n |-> 0]

Abs(i) == IF i < 0 THEN 0 - i ELSE i

NewInt(i) == [neg |-> i < 0, abs |-> BytesOfNat(Abs(i))]

SetBytes(b) == [neg |-> FALSE, abs |-> TrimLeft(b)]

Bytes(x) == x.abs

Int64(x) == IF x.neg THEN 0 - NatOf(x.abs) ELSE NatOf(x.abs)

BigSub(x, y) == NewInt(Int64(x) - Int64(y))

BigAdd(x, y) == NewInt(Int64(x) + Int64(y))

ToByte(i) == i % ByteBase

big27 == NewInt(27)

(***************************************************************************)
(* Transactions (types.Transaction): the unsigned fields and V, R, S.      *)
(***************************************************************************)
ToAddr == [addr |-> <<171, 205>>]
ZeroAddress == [addr |-> <<>>]

UnsignedFields == {"nonce", "gasPrice", "gas", "to", "value", "input"}

NewTx(nonce, to, value, input, V, R, S) ==
    [nonce |-> nonce, gasPrice |-> NewInt(1), gas |-> 21000, to |-> to,
     value |-> NewInt(value), input |-> input, V |-> V, R |-> R, S |-> S]

Copy(tx) == tx

(***************************************************************************)
(* External primitives: the RLP encoder and Keccak (an injective digest    *)
(* of the encoded field list), and ECDSA sign and recover over a group of  *)
(* prime order CurveOrder whose points are 1 .. CurveOrder - 1 with        *)
(* generator 1.  A point P and its negation CurveOrder - P share the       *)
(* x coordinate Min(P, CurveOrder - P); the recovery parity tells them     *)
(* apart, as the parity of y does on secp256k1.                            *)
(***************************************************************************)
CurveOrder == 5

Keccak256(b) == [keccak |-> b]

calcTxHash(tx, chainID) ==
    Keccak256(<<BytesOfNat(tx.nonce), Bytes(tx.gasPrice), BytesOfNat(tx.gas),
                IF tx.to = Nil THEN <<>> ELSE tx.to.addr,
                Bytes(tx.value), tx.input>>
              \o (IF chainID # 0
                     THEN <<BytesOfNat(chainID), BytesOfNat(0), BytesOfNat(0)>>
                     ELSE <<>>))

RECURSIVE SumBytes(_)
SumBytes(b) == IF b = <<>> THEN 0 ELSE Head(b) + SumBytes(Tail(b))

RECURSIVE WeighItems(_, _)
WeighItems(items, i) ==
    IF i > Len(items) THEN 0
    ELSE i * SumBytes(items[i]) + WeighItems(items, i + 1)

\* the digest as a scalar of the group
HashScalar(h) == WeighItems(h.keccak, 1) % CurveOrder

Inverse(a) == CHOOSE x \in 1 .. CurveOrder - 1 : (a * x) % CurveOrder = 1

Min(a, b) == IF a <= b THEN a ELSE b

PadLeft(b, n) == Zeros(n - Len(b)) \o b

ValidKey(priv) == priv \in 1 .. CurveOrder - 1

PubKeyOf(priv) == <<4, priv % CurveOrder>>

SignS(priv, h, k) ==
    (Inverse(k) * (HashScalar(h) + Min(k, CurveOrder - k) * priv)) % CurveOrder

\* the nonces the primitive may use for this key and digest: it draws again
\* when the signature's s would be zero
SignNonces(priv, h) ==
    IF ValidKey(priv)
        THEN {k \in 1 .. CurveOrder - 1 : SignS(priv, h, k) # 0}
        ELSE {1}

Sign(priv, h, k) ==
    IF ~ValidKey(priv) THEN [sig |-> <<>>, err |-> SigningFailure]
    ELSE [sig |-> PadLeft(BytesOfNat(Min(k, CurveOrder - k)), SigPartLen)
                  \o PadLeft(BytesOfNat(SignS(priv, h, k)), SigPartLen)
                  \o <<IF k <= CurveOrder - k THEN 0 ELSE 1>>,
          err |-> NoErr]

\* a 32-byte big-endian scalar, or CurveOrder when it is not below the order
ScalarOf(b) ==
    IF Len(TrimLeft(b)) > 1 THEN CurveOrder
    ELSE Min(NatOf(TrimLeft(b)), CurveOrder)

Ecrecover(h, sig) ==
    IF Len(sig) # 2 * SigPartLen + 1 THEN [pub |-> <<>>, err |-> RecoveryFailure]
    ELSE LET r == ScalarOf(SubSeq(sig, 1, SigPartLen))
             s == ScalarOf(SubSeq(sig, SigPartLen + 1, 2 * SigPartLen))
             v == sig[2 * SigPartLen + 1]
             point == IF v = 0 THEN r ELSE CurveOrder - r
             q == IF r \in 1 .. CurveOrder - 1
                     THEN (Inverse(r) * (s * point + CurveOrder * CurveOrder
                                         - HashScalar(h))) % CurveOrder
                     ELSE 0
         IN  IF r \notin 1 .. CurveOrder - 1 \/ s \notin 1 .. CurveOrder - 1
                \/ v \notin {0, 1} \/ q = 0
                 THEN [pub |-> <<>>, err |-> RecoveryFailure]
                 ELSE [pub |-> <<4, q>>, err |-> NoErr]

encodeSignature(R, S, v) ==
    IF \/ R = Nil \/ S = Nil
       \/ v \notin {0, 1}
       \/ Len(Bytes(R)) = 0 \/ Len(Bytes(S)) = 0
       \/ Len(Bytes(R)) > SigPartLen \/ Len(Bytes(S)) > SigPartLen
        THEN [sig |-> <<>>, err |-> InvalidSignature]
        ELSE [sig |-> PadLeft(Bytes(R), SigPartLen) \o PadLeft(Bytes(S), SigPartLen)
                      \o <<v>>,
              err |-> NoErr]

\* Keccak256(pub[1:])[12:] as an address
PubKeyToAddress(pub) == [addr |-> <<Keccak256(Tail(pub))>>]

(***************************************************************************)
(* FrontierSigner.                                                         *)
(***************************************************************************)
HashSigned(tx) ==
    Keccak256(calcTxHash(tx, 0).keccak
              \o <<IF tx.V = Nil THEN <<>> ELSE Bytes(tx.V)>>)

Hash(tx) == calcTxHash(tx, 0)

big35 == NewInt(35)

CalculateV35(parity) == Bytes(BigAdd(NewInt(parity), big35))

CalculateV(parity) == Bytes(BigAdd(NewInt(parity), big27))

\* refV after lines 29-34
SenderRefV(tx) ==
    BigSub(IF tx.V # Nil THEN SetBytes(Bytes(tx.V)) ELSE NewInt(0), big27)

SenderParityClamped(tx) ==
    IF Int64(SenderRefV(tx)) < 0 THEN 0 ELSE ToByte(Int64(SenderRefV(tx)))

\* the byte handed to encodeSignature, line 36
SenderParity(tx) == ToByte(Int64(SenderRefV(tx)))

SenderIgnoresEncodeError(tx) ==
    LET v == SenderParity(tx)
        enc == encodeSignature(tx.R, tx.S, v)
        rec == Ecrecover(Hash(tx), enc.sig)
    IN  IF rec.err # NoErr
            THEN [tx |-> tx, addr |-> ZeroAddress, err |-> rec.err,
                  parity |-> v, recovered |-> TRUE]
            ELSE [tx |-> tx, addr |-> PubKeyToAddress(rec.pub), err |-> NoErr,
                  parity |-> v, recovered |-> TRUE]

SenderInPlace(tx) ==
    LET v == SenderParity(tx)
        enc == encodeSignature(tx.R, tx.S, v)
        rec == Ecrecover(Hash(tx), enc.sig)
        after == IF tx.V # Nil THEN [tx EXCEPT !.V = SenderRefV(tx)] ELSE tx
    IN  IF enc.err # NoErr
            THEN [tx |-> after, addr |-> ZeroAddress, err |-> enc.err,
                  parity |-> v, recovered |-> FALSE]
        ELSE IF rec.err # NoErr
            THEN [tx |-> after, addr |-> ZeroAddress, err |-> rec.err,
                  parity |-> v, recovered |-> TRUE]
        ELSE [tx |-> after, addr |-> PubKeyToAddress(rec.pub), err |-> NoErr,
              parity |-> v, recovered |-> TRUE]

\* Sender: the transaction as the call leaves it, the address and the error,
\* the recovery byte it computed and whether it called Ecrecover
Sender(tx) ==
    LET v == SenderParity(tx)
        enc == encodeSignature(tx.R, tx.S, v)
        rec == Ecrecover(Hash(tx), enc.sig)
    IN  IF enc.err # NoErr
            THEN [tx |-> tx, addr |-> ZeroAddress, err |-> enc.err,
                  parity |-> v, recovered |-> FALSE]
        ELSE IF rec.err # NoErr
            THEN [tx |-> tx, addr |-> ZeroAddress, err |-> rec.err,
                  parity |-> v, recovered |-> TRUE]
        ELSE [tx |-> tx, addr |-> PubKeyToAddress(rec.pub), err |-> NoErr,
              parity |-> v, recovered |-> TRUE]

SignedCopy(c, sig) ==
    [c EXCEPT !.R = SetBytes(SubSeq(sig, 1, 32)),
              !.S = SetBytes(SubSeq(sig, 33, 64)),
              !.V = SetBytes(CalculateV(sig[65]))]

SignTxSwapRS(tx, priv, k) ==
    LET c == Copy(tx)
        sg == Sign(priv, Hash(c), k)
    IN  IF sg.err # NoErr
            THEN [input |-> tx, out |-> Nil, err |-> sg.err]
            ELSE [input |-> tx,
                  out |-> [c EXCEPT
                      !.R = SetBytes(SubSeq(sg.sig, 33, 64)),
                      !.S = SetBytes(SubSeq(sg.sig, 1, 32)),
                      !.V = SetBytes(CalculateV(sg.sig[65]))],
                  err |-> NoErr]

SignTxInPlace(tx, priv, k) ==
    LET sg == Sign(priv, Hash(tx), k)
    IN  IF sg.err # NoErr
            THEN [input |-> tx, out |-> Nil, err |-> sg.err]
            ELSE [input |-> SignedCopy(tx, sg.sig),
                  out |-> SignedCopy(tx, sg.sig), err |-> NoErr]

SignTxPartialOnError(tx, priv, k) ==
    LET c == Copy(tx)
        sg == Sign(priv, Hash(c), k)
    IN  IF sg.err # NoErr
            THEN [input |-> tx, out |-> c, err |-> sg.err]
            ELSE [input |-> tx, out |-> SignedCopy(c, sg.sig), err |-> NoErr]

\* SignTx with the nonce k the signing primitive drew: the caller's
\* transaction as the call leaves it, the returned transaction and the error
SignTx(tx, priv, k) ==
    LET c == Copy(tx)
        sg == Sign(priv, Hash(c), k)
    IN  IF sg.err # NoErr
            THEN [input |-> tx, out |-> Nil, err |-> sg.err]
            ELSE [input |-> tx,
                  out |-> SignedCopy(c, sg.sig),
                  err |-> NoErr]

(***************************************************************************)
(* The signer's state machine.  txs holds the transaction objects a caller *)
(* holds: txs[1] is the one it built, the others are what SignTx returned. *)
(* signedBy[j] remembers the call that returned txs[j]; res is the last    *)
(* call, with the argument as it was before the call.                      *)
(***************************************************************************)
Slots == 1 .. MaxTx

\* private keys: 0 is not a valid key, 1 and 3 are
Keys == {0, 1, 3}

Big33 == SetBytes(<<1>> \o Zeros(SigPartLen))

Big32 == SetBytes(<<1>> \o Zeros(SigPartLen - 1))

VSamples ==
    {Nil} \cup {NewInt(v) : v \in {0 - 27, 0, 26, 27, 28, 283}}

\* R and S of the caller's transaction: one of them absent, zero, of 33 bytes,
\* of 32 bytes and not below the group order, or both in range
RSSamples ==
    {<<Nil, Nil>>, <<Nil, NewInt(1)>>, <<NewInt(1), Nil>>,
     <<NewInt(0), NewInt(1)>>, <<NewInt(1), NewInt(0)>>,
     <<Big33, NewInt(1)>>, <<NewInt(1), Big33>>, <<Big32, NewInt(1)>>,
     <<NewInt(1), NewInt(1)>>, <<NewInt(2), NewInt(3)>>}

TxInputs ==
    {NewTx(0, to, 0, <<>>, V, rs[1], rs[2]) :
        to \in {Nil, ToAddr}, V \in VSamples, rs \in RSSamples}

NoCall ==
    [op |-> "none", arg |-> 0, pre |-> Nil, key |-> 0, err |-> NoErr,
     addr |-> ZeroAddress, out |-> Nil, outSlot |-> 0, hash |-> Nil,
     parity |-> 0, recovered |-> FALSE]

FreeSlot == CHOOSE j \in Slots : txs[j] = Nil /\ \A i \in Slots : txs[i] = Nil => j <= i

ManifestIdle == mpc = "idle" /\ params = Nil /\ mres = Nil

Init ==
    /\ \E tx \in TxInputs : txs = [i \in Slots |-> IF i = 1 THEN tx ELSE Nil]
    /\ signedBy = [i \in Slots |-> Nil]
    /\ res = NoCall
    /\ ManifestIdle

DoHash(i) ==
    /\ txs[i] # Nil
    /\ res' = [NoCall EXCEPT !.op = "Hash", !.arg = i, !.pre = txs[i],
                             !.hash = Hash(txs[i])]
    /\ UNCHANGED <<txs, signedBy, manifestVars>>

DoSender(i) ==
    /\ txs[i] # Nil
    /\ LET r == Sender(txs[i])
       IN  /\ txs' = [txs EXCEPT ![i] = r.tx]
           /\ res' = [NoCall EXCEPT !.op = "Sender", !.arg = i, !.pre = txs[i],
                                    !.err = r.err, !.addr = r.addr,
                                    !.parity = r.parity,
                                    !.recovered = r.recovered]
    /\ UNCHANGED <<signedBy, manifestVars>>

DoSignTx(i, priv) ==
    /\ txs[i] # Nil
    /\ \E j \in Slots : txs[j] = Nil
    /\ \E k \in SignNonces(priv, Hash(Copy(txs[i]))) :
        LET r == SignTx(txs[i], priv, k)
            j == FreeSlot
        IN  /\ txs' = IF r.err = NoErr
                          THEN [txs EXCEPT ![i] = r.input, ![j] = r.out]
                          ELSE [txs EXCEPT ![i] = r.input]
            /\ signedBy' = IF r.err = NoErr
                               THEN [signedBy EXCEPT ![j] = [key |-> priv, from |-> i]]
                               ELSE signedBy
            /\ res' = [NoCall EXCEPT !.op = "SignTx", !.arg = i, !.pre = txs[i],
                                     !.key = priv, !.err = r.err, !.out = r.out,
                                     !.outSlot = IF r.err = NoErr THEN j ELSE 0]
    /\ UNCHANGED manifestVars

Next ==
    \/ \E i \in Slots : DoHash(i)
    \/ \E i \in Slots : DoSender(i)
    \/ \E i \in Slots, priv \in Keys : DoSignTx(i, priv)

Spec == Init /\ [][Next]_vars

(***************************************************************************)
(* The manifest command.  Flag values and validator strings are sequences  *)
(* of characters.                                                          *)
(***************************************************************************)
MaxValidators == 2

nodeIDLength == 53
ecdsaAddressLength == 42
blsKeyLength == 2

Rep(c, n) == [i \in 1 .. n |-> c]

HexDigits ==
    <<"0", "1", "2", "3", "4", "5", "6", "7", "8", "9",
      "a", "b", "c", "d", "e", "f">>

\* the value of a digit, or 16 when the character is no digit
DigitVal(c) ==
    IF \E i \in 1 .. Len(HexDigits) : HexDigits[i] = c
        THEN (CHOOSE i \in 1 .. Len(HexDigits) : HexDigits[i] = c) - 1
        ELSE 16

RECURSIVE DigitsValue(_, _)
DigitsValue(str, base) ==
    IF str = <<>> THEN 0
    ELSE DigitsValue(SubSeq(str, 1, Len(str) - 1), base) * base
         + DigitVal(str[Len(str)])

\* big.Int.SetString(str, base) for base 10 or 16: an optional sign, then
\* at least one digit of the base
SetString(str, base) ==
    LET signed == str # <<>> /\ Head(str) \in {"-", "+"}
        digits == IF signed THEN Tail(str) ELSE str
        ok == digits # <<>> /\ \A i \in 1 .. Len(digits) : DigitVal(digits[i]) < base
    IN  IF ~ok THEN [val |-> Nil, ok |-> FALSE]
        ELSE [val |-> NewInt(IF signed /\ Head(str) = "-"
                                 THEN 0 - DigitsValue(digits, base)
                                 ELSE DigitsValue(digits, base)),
              ok |-> TRUE]

HasPrefix0x(str) == Len(str) >= 2 /\ str[1] = "0" /\ str[2] = "x"

ParseUint256orHex(str) ==
    LET r == IF HasPrefix0x(str)
                 THEN SetString(SubSeq(str, 3, Len(str)), 16)
                 ELSE SetString(str, 10)
    IN  IF r.ok THEN [val |-> r.val, err |-> NoErr]
        ELSE [val |-> Nil, err |-> "could not parse"]

Cmp(x, y) ==
    IF Int64(x) < Int64(y) THEN 0 - 1 ELSE IF Int64(x) > Int64(y) THEN 1 ELSE 0

\* os.Stat on the validators path
Stat(path) ==
    CASE path = "./" -> NoErr
      [] path = "denied" -> "permission denied"
      [] OTHER -> "ErrNotExist"

RECURSIVE Split(_, _)
Split(str, sep) ==
    IF \A i \in 1 .. Len(str) : str[i] # sep THEN <<str>>
    ELSE LET at == CHOOSE i \in 1 .. Len(str) :
                       str[i] = sep /\ \A j \in 1 .. i - 1 : str[j] # sep
         IN  <<SubSeq(str, 1, at - 1)>> \o Split(SubSeq(str, at + 1, Len(str)), sep)

StringToAddress(str) == [addr |-> SubSeq(str, 3, Len(str))]

validateFlagsNoStakeCheck(p) ==
    LET premine == ParseUint256orHex(p.premineValidators)
        stake == ParseUint256orHex(p.stakeRaw)
    IN  IF Stat(p.validatorsPath) = "ErrNotExist"
            THEN [params |-> p, err |-> "validators path doesn't exist"]
        ELSE IF premine.err # NoErr
            THEN [params |-> p, err |-> "invalid premine validators balance"]
        ELSE IF p.stakeRaw # <<>> /\ stake.err # NoErr
            THEN [params |-> p, err |-> "invalid stake amount"]
        ELSE [params |-> [p EXCEPT !.premineBalance = premine.val,
                                   !.stake = IF p.stakeRaw # <<>>
                                                 THEN stake.val ELSE Nil],
              err |-> NoErr]

\* validateFlags: the params as the call leaves them, and the error
validateFlags(p) ==
    LET premine == ParseUint256orHex(p.premineValidators)
        stake == ParseUint256orHex(p.stakeRaw)
    IN  IF Stat(p.validatorsPath) = "ErrNotExist"
            THEN [params |-> p, err |-> "validators path doesn't exist"]
        ELSE IF premine.err # NoErr
            THEN [params |-> p, err |-> "invalid premine validators balance"]
        ELSE IF p.stakeRaw # <<>> /\ stake.err # NoErr
            THEN [params |-> p, err |-> "invalid stake amount"]
        ELSE IF p.stakeRaw # <<>> /\ Cmp(stake.val, premine.val) > 0
            THEN [params |-> p, err |-> "provided stake is greater than premine balance"]
        ELSE [params |-> [p EXCEPT !.premineBalance = premine.val,
                                   !.stake = IF p.stakeRaw # <<>>
                                                 THEN stake.val ELSE Nil],
              err |-> NoErr]

\* the error of one CLI validator string, lines 178-196
ValidatorStringError(str) ==
    LET parts == Split(str, ":")
    IN  IF Len(parts) # 3 THEN "expected 3 parts"
        ELSE IF Len(parts[1]) # nodeIDLength THEN "invalid node id"
        ELSE IF Len(parts[2]) # ecdsaAddressLength THEN "invalid address"
        ELSE IF Len(parts[3]) < blsKeyLength THEN "invalid bls key"
        ELSE NoErr

\* the stake getValidatorAccounts gives every validator, lines 169-173
EffectiveStake(p) ==
    IF p.stake = Nil THEN NewInt(Int64(p.premineBalance)) ELSE p.stake

\* getValidatorAccounts, given what genesis.ReadValidatorsByPrefix returns
\* when it is called
getValidatorAccounts(p, stored) ==
    IF Len(p.validators) > 0
        THEN IF \E i \in 1 .. Len(p.validators) :
                    ValidatorStringError(p.validators[i]) # NoErr
                 THEN [validators |-> Nil,
                       err |-> ValidatorStringError(p.validators[
                           CHOOSE i \in 1 .. Len(p.validators) :
                               /\ ValidatorStringError(p.validators[i]) # NoErr
                               /\ \A j \in 1 .. i - 1 :
                                   ValidatorStringError(p.validators[j]) = NoErr])]
                 ELSE [validators |->
                           [i \in 1 .. Len(p.validators) |->
                               LET parts == Split(p.validators[i], ":")
                               IN  [NodeID |-> parts[1],
                                    Address |-> StringToAddress(parts[2]),
                                    BlsKey |-> parts[3],
                                    Balance |-> p.premineBalance,
                                    Stake |-> EffectiveStake(p)]],
                       err |-> NoErr]
    ELSE IF stored.err # NoErr
        THEN [validators |-> Nil, err |-> stored.err]
    ELSE [validators |->
              [i \in 1 .. Len(stored.validators) |->
                  [stored.validators[i] EXCEPT !.Balance = p.premineBalance,
                                               !.Stake = EffectiveStake(p)]],
          err |-> NoErr]

GoodValidator == Rep("n", nodeIDLength) \o <<":">> \o <<"0", "x">>
                 \o Rep("a", ecdsaAddressLength - 2) \o <<":">> \o Rep("b", blsKeyLength)

ValidatorSamples ==
    {GoodValidator,
     GoodValidator \o <<"b">>,
     SubSeq(GoodValidator, 1, Len(GoodValidator) - 1),
     Tail(GoodValidator),
     SubSeq(GoodValidator, 1, nodeIDLength + 1) \o Tail(Rep("a", ecdsaAddressLength))
         \o <<":">> \o Rep("b", blsKeyLength),
     SubSeq(GoodValidator, 1, nodeIDLength + ecdsaAddressLength + 1),
     GoodValidator \o <<":">> \o Rep("b", blsKeyLength)}

SeqsUpTo(S, n) == UNION {[1 .. m -> S] : m \in 0 .. n}

PremineSamples == {<<"1", "0">>, <<"0", "x", "5">>, <<>>, <<"z">>}

StakeSamples ==
    {<<>>, <<"5">>, <<"0", "x", "a">>, <<"1", "1">>, <<"0", "x">>, <<"-", "1">>}

PathSamples == {"./", "missing", "denied"}

StoredValidator(n) ==
    [NodeID |-> Rep("n", nodeIDLength), Address |-> [addr |-> <<n>>],
     BlsKey |-> Rep("b", blsKeyLength), Balance |-> Nil, Stake |-> Nil]

\* what genesis.ReadValidatorsByPrefix may return
StoredOutcomes ==
    {[validators |-> <<>>, err |-> "read error"]}
    \cup {[validators |-> [i \in 1 .. m |-> StoredValidator(i)], err |-> NoErr] :
             m \in 0 .. MaxValidators}

SignerIdle ==
    /\ txs = [i \in Slots |-> Nil]
    /\ signedBy = [i \in Slots |-> Nil]
    /\ res = NoCall

\* params as setFlags leaves it: the parsed amounts are nil
ManifestInit ==
    /\ mpc = "start"
    /\ \E path \in PathSamples, premine \in PremineSamples, stake \in StakeSamples,
          vs \in SeqsUpTo(ValidatorSamples, MaxValidators) :
        params = [validatorsPath |-> path, premineValidators |-> premine,
                  stakeRaw |-> stake, validators |-> vs,
                  premineBalance |-> Nil, stake |-> Nil]
    /\ mres = Nil
    /\ SignerIdle

\* runPreRun
runPreRun ==
    /\ mpc = "start"
    /\ LET r == validateFlags(params)
       IN  /\ params' = r.params
           /\ mres' = [validators |-> Nil, err |-> r.err, manifest |-> Nil,
                        output |-> IF r.err = NoErr THEN "" ELSE r.err]
           /\ mpc' = IF r.err = NoErr THEN "validated" ELSE "failed"
    /\ UNCHANGED signerVars

\* runCommand: the validators, the manifest file written and the command's
\* output; saved tells whether Manifest.Save succeeds
runCommand ==
    /\ mpc = "validated"
    /\ \E stored \in StoredOutcomes, saved \in BOOLEAN :
        LET r == getValidatorAccounts(params, stored)
        IN  mres' = [validators |-> r.validators, err |-> r.err,
                     manifest |-> IF r.err = NoErr /\ saved
                                      THEN r.validators ELSE Nil,
                     output |-> IF r.err # NoErr
                                    THEN "failed to get validator accounts"
                                ELSE IF ~saved THEN "failed to save manifest file"
                                ELSE "Manifest file written"]
    /\ mpc' = "done"
    /\ UNCHANGED <<params, signerVars>>

ManifestNext == runPreRun \/ runCommand

ManifestSpec == ManifestInit /\ [][ManifestNext]_vars

(***************************************************************************)
(* Properties of the signer.                                               *)
(***************************************************************************)
Agree(a, b) == \A f \in UnsignedFields : a[f] = b[f]

\* absent or zero V
Unsigned(tx) == tx.V = Nil \/ Bytes(tx.V) = <<>>

BadRS(x) == x = Nil \/ Len(Bytes(x)) = 0 \/ Len(Bytes(x)) > SigPartLen

\* C1: Sender applied to a transaction that SignTx returned for a valid key
\* succeeds and returns the address of that key's public key.
C1_RoundTrip ==
    (res.op = "Sender" /\ signedBy[res.arg] # Nil)
        => /\ res.err = NoErr
           /\ res.addr = PubKeyToAddress(PubKeyOf(signedBy[res.arg].key))

C1_Witness ==
    /\ res.op = "Sender" /\ signedBy[res.arg] # Nil
    /\ signedBy[res.arg].key = 3
    /\ res.pre.V = NewInt(28)
    /\ res.addr = PubKeyToAddress(PubKeyOf(3))

\* C2: Sender fails with InvalidSignature for every V other than 27 and 28,
\* absent, negative or above 255 included.
C2_OutOfRangeVRejected ==
    (res.op = "Sender" /\ (res.pre.V = Nil \/ res.pre.V \notin {NewInt(27), NewInt(28)}))
        => res.err = InvalidSignature

\* C3: Sender on a transaction whose V is absent or zero returns
\* InvalidSignature and the zero address without calling Ecrecover.
C3_UnsignedRejected ==
    (res.op = "Sender" /\ Unsigned(res.pre))
        => /\ res.err = InvalidSignature
           /\ res.addr = ZeroAddress
           /\ ~res.recovered

C3_Witness ==
    /\ res.op = "Sender" /\ Unsigned(res.pre)
    /\ ~BadRS(res.pre.R) /\ ~BadRS(res.pre.S)
    /\ res.err = InvalidSignature

\* C4: SignTx leaves the caller's transaction as it was, whether it fails or
\* succeeds, and on success returns another object with the same unsigned
\* fields.
C4_SignTxFrame ==
    res.op = "SignTx"
        => /\ txs[res.arg] = res.pre
           /\ res.err = NoErr
                => /\ res.outSlot # res.arg
                   /\ txs[res.outSlot] = res.out
                   /\ Agree(res.out, res.pre)

C4_Witness ==
    /\ res.op = "SignTx" /\ res.err = NoErr
    /\ res.out.V # res.pre.V /\ res.out.R # res.pre.R
    /\ txs[res.arg] = res.pre

\* C5: Hash of a transaction equals the hash of every transaction with the
\* same unsigned fields whatever their V, R, S, and covers the six unsigned
\* fields only: no chain identifier, no signature.
C5_HashDomain ==
    res.op = "Hash"
        => /\ Len(res.hash.keccak) = Cardinality(UnsignedFields)
           /\ \A j \in Slots :
                (txs[j] # Nil /\ Agree(txs[j], res.pre))
                    => res.hash = calcTxHash(txs[j], 0)

C5_Witness ==
    /\ res.op = "Hash"
    /\ \E j \in Slots :
        /\ txs[j] # Nil /\ j # res.arg /\ Agree(txs[j], res.pre)
        /\ Unsigned(txs[j]) /\ ~Unsigned(res.pre)
        /\ res.hash = calcTxHash(txs[j], 0)

\* C6: a failed SignTx returns no transaction and a failed Sender the zero
\* address; a successful SignTx returns a transaction with R, S and V all set.
C6_NoPartialResults ==
    /\ (res.op = "SignTx" /\ res.err # NoErr) => (res.out = Nil /\ res.outSlot = 0)
    /\ (res.op = "SignTx" /\ res.err = NoErr)
        => /\ res.out # Nil
           /\ ~BadRS(res.out.R) /\ ~BadRS(res.out.S) /\ ~Unsigned(res.out)
    /\ (res.op = "Sender" /\ res.err # NoErr) => res.addr = ZeroAddress

C6_Witness ==
    /\ res.op = "SignTx" /\ res.err = SigningFailure /\ res.out = Nil

\* C7: Sender fails with InvalidSignature and returns the zero address when
\* R or S is absent, zero or longer than 32 bytes, whatever V is.
C7_BadRSRejected ==
    (res.op = "Sender" /\ (BadRS(res.pre.R) \/ BadRS(res.pre.S)))
        => /\ res.err = InvalidSignature
           /\ res.addr = ZeroAddress

C7_Witness ==
    /\ res.op = "Sender"
    /\ res.pre.R = Big33
    /\ res.pre.V = NewInt(27)
    /\ res.err = InvalidSignature

\* C8: for each parity p in {0, 1}, CalculateV(p) is the integer 27 + p and
\* Sender's decoding of that V hands exactly p to the signature reassembly.
C8_VInverse ==
    \A p \in {0, 1} :
        /\ NatOf(CalculateV(p)) = 27 + p
        /\ (res.op = "Sender" /\ res.pre.V = SetBytes(CalculateV(p)))
            => res.parity = p

C8_Witness ==
    /\ res.op = "Sender"
    /\ res.pre.V = SetBytes(CalculateV(1))
    /\ res.parity = 1
    /\ signedBy[res.arg] # Nil

\* C9: no call changes a transaction object that exists; a new object appears
\* only as the signed result of SignTx; Sender called again on the same
\* object returns the same result.
C9_Lifecycle ==
    [][/\ \A i \in Slots : txs[i] # Nil => txs'[i] = txs[i]
       /\ \A i \in Slots :
            (txs[i] = Nil /\ txs'[i] # Nil)
                => (res'.op = "SignTx" /\ res'.outSlot = i /\ ~Unsigned(txs'[i]))
       /\ (res.op = "Sender" /\ res'.op = "Sender" /\ res'.arg = res.arg)
            => (res'.addr = res.addr /\ res'.err = res.err)]_vars

C9_Witness ==
    /\ res.op = "SignTx" /\ res.err = NoErr
    /\ ~Unsigned(res.pre) /\ ~BadRS(res.pre.R) /\ ~BadRS(res.pre.S)
    /\ txs[res.arg] = res.pre
    /\ res.out.R # res.pre.R

(***************************************************************************)
(* Properties of the manifest command.                                     *)
(***************************************************************************)
\* a validator string of exactly three colon-separated parts of valid lengths
WellFormed(str) ==
    /\ Len(str) >= nodeIDLength + ecdsaAddressLength + blsKeyLength + 2
    /\ {i \in 1 .. Len(str) : str[i] = ":"}
           = {nodeIDLength + 1, nodeIDLength + ecdsaAddressLength + 2}

StakeProvided == params.stakeRaw # <<>>

\* C10: validateFlags succeeds only if no stake is given or stake <= premine
\* balance, and a failure leaves premineBalance and stake as they were; then
\* every validator getValidatorAccounts returns has the premine balance as
\* Balance and the given stake (the premine balance when none was given) as
\* Stake, so Stake <= Balance; a CLI validator string that is not three parts
\* of valid lengths yields an error and no list.
C10_Manifest ==
    /\ mpc \in {"validated", "done"}
        => /\ params.premineBalance = ParseUint256orHex(params.premineValidators).val
           /\ params.premineBalance # Nil
           /\ IF StakeProvided
                  THEN /\ params.stake = ParseUint256orHex(params.stakeRaw).val
                       /\ params.stake # Nil
                       /\ Int64(params.stake) <= Int64(params.premineBalance)
                  ELSE params.stake = Nil
    /\ mpc = "failed"
        => /\ mres.err # NoErr
           /\ params.premineBalance = Nil /\ params.stake = Nil
    /\ (mpc = "done" /\ mres.err = NoErr)
        => \A i \in 1 .. Len(mres.validators) :
               /\ mres.validators[i].Balance = params.premineBalance
               /\ mres.validators[i].Stake =
                      (IF StakeProvided THEN params.stake ELSE params.premineBalance)
               /\ Int64(mres.validators[i].Stake) <= Int64(mres.validators[i].Balance)
    /\ (mpc = "done" /\ mres.err = NoErr /\ Len(params.validators) > 0)
        => Len(mres.validators) = Len(params.validators)
    /\ (mpc = "done" /\ \E i \in 1 .. Len(params.validators) :
                            ~WellFormed(params.validators[i]))
        => (mres.err # NoErr /\ mres.validators = Nil)

C10_Witness ==
    /\ mpc = "done" /\ mres.err = NoErr
    /\ StakeProvided
    /\ Len(params.validators) = MaxValidators
    /\ Len(mres.validators) = MaxValidators
    /\ Int64(mres.validators[1].Stake) < Int64(mres.validators[1].Balance)

====
